---- MODULE Spec2Model ----
(***************************************************************************)
(* yays (Yet Another Yaml Sorter): the path parser, the target resolver,   *)
(* the two node sorters and the SortYaml loop of main.go.                  *)
(*                                                                         *)
(* Text is modelled as a sequence of byte values, so that Go's string      *)
(* comparison (bytewise lexicographic) and the renderings built by         *)
(* nodeComparableString are computed, not assumed.  Slices are 1-based     *)
(* here and 0-based in the source; an Index step keeps the source's        *)
(* 0-based number.                                                         *)
(***************************************************************************)
EXTENDS Integers, Sequences, FiniteSets, TLC

-----------------------------------------------------------------------------
(* Bounds of the model *)

\* longest list of -p paths given to one run
MaxPaths == 2
\* longest path text enumerated for the parser
MaxPathLen == 4
\* most key/value pairs (or elements) of an enumerated sort target
MaxPairs == 3

-----------------------------------------------------------------------------
(* Characters *)

chSpace == 32
chStar == 42
chPlus == 43
chComma == 44
chMinus == 45
chDot == 46
chZero == 48
chNine == 57
chColon == 58
chLBracket == 91
chRBracket == 93
chLBrace == 123
chRBrace == 125

\* the white space strings.TrimSpace removes (ASCII part)
IsSpace(c) == c \in {9, 10, 11, 12, 13, chSpace}

-----------------------------------------------------------------------------
(* Go string primitives *)

RECURSIVE TrimLeft(_)
TrimLeft(s) ==
    IF s # <<>> /\ IsSpace(Head(s)) THEN TrimLeft(Tail(s)) ELSE s

RECURSIVE TrimRight(_)
TrimRight(s) ==
    IF s # <<>> /\ IsSpace(s[Len(s)]) THEN TrimRight(SubSeq(s, 1, Len(s) - 1)) ELSE s

TrimSpace(s) == TrimRight(TrimLeft(s))

\* strings.Split(s, "."): the pieces between the dots, empty pieces included
RECURSIVE SplitFrom(_, _, _)
SplitFrom(s, i, piece) ==
    IF i > Len(s) THEN <<piece>>
    ELSE IF s[i] = chDot THEN <<piece>> \o SplitFrom(s, i + 1, <<>>)
    ELSE SplitFrom(s, i + 1, Append(piece, s[i]))

SplitDot(s) == SplitFrom(s, 1, <<>>)

HasPrefix(s, c) == s # <<>> /\ s[1] = c
HasSuffix(s, c) == s # <<>> /\ s[Len(s)] = c

\* strings.Index(s, "[") as a 0-based position, -1 when absent
IndexOf(s, c) ==
    IF \E i \in 1..Len(s) : s[i] = c
    THEN (CHOOSE i \in 1..Len(s) : s[i] = c /\ \A j \in 1..(i - 1) : s[j] # c) - 1
    ELSE -1

\* Go's s[lo:hi] with 0-based bounds
Slice(s, lo, hi) == SubSeq(s, lo + 1, hi)

\* a < b on Go strings: bytewise lexicographic
RECURSIVE StrLess(_, _)
StrLess(a, b) ==
    IF b = <<>> THEN FALSE
    ELSE IF a = <<>> THEN TRUE
    ELSE IF Head(a) # Head(b) THEN Head(a) < Head(b)
    ELSE StrLess(Tail(a), Tail(b))

\* strconv.Atoi on a text shorter than 19 bytes: optional sign, then digits
RECURSIVE AtoiDigits(_, _)
AtoiDigits(s, n) ==
    IF s = <<>> THEN [ok |-> TRUE, n |-> n]
    ELSE IF Head(s) < chZero \/ Head(s) > chNine THEN [ok |-> FALSE, n |-> 0]
    ELSE AtoiDigits(Tail(s), n * 10 + (Head(s) - chZero))

Atoi(s) ==
    IF s = <<>> THEN [ok |-> FALSE, n |-> 0]
    ELSE LET signed == Head(s) = chMinus \/ Head(s) = chPlus
             body == IF signed THEN Tail(s) ELSE s
             r == AtoiDigits(body, 0)
         IN  IF body = <<>> \/ ~r.ok THEN [ok |-> FALSE, n |-> 0]
             ELSE IF Head(s) = chMinus THEN [ok |-> TRUE, n |-> 0 - r.n]
             ELSE r

-----------------------------------------------------------------------------
(* Path steps *)

KeyStep(name) == [kind |-> "stepKey", key |-> name, index |-> 0]
IndexStep(n) == [kind |-> "stepIndex", key |-> <<>>, index |-> n]
AllStep == [kind |-> "stepAll", key |-> <<>>, index |-> 0]

\* variant of bracketStep: a negative selection is refused
bracketStepNonNegative(inside) ==
    IF inside = <<chStar>> THEN [err |-> FALSE, steps |-> <<AllStep>>]
    ELSE IF Atoi(inside).ok /\ Atoi(inside).n >= 0
    THEN [err |-> FALSE, steps |-> <<IndexStep(Atoi(inside).n)>>]
    ELSE [err |-> TRUE, steps |-> <<>>]

\* the bracket selection of one token: the step it adds, or an error
bracketStep(inside) ==
    IF inside = <<chStar>> THEN [err |-> FALSE, steps |-> <<AllStep>>]
    ELSE IF Atoi(inside).ok THEN [err |-> FALSE, steps |-> <<IndexStep(Atoi(inside).n)>>]
    ELSE [err |-> TRUE, steps |-> <<>>]

\* the body of the loop of parsePathSteps for one token
parseToken(rawPart) ==
    LET part == TrimSpace(rawPart)
        lb == IndexOf(part, chLBracket)
    IN  IF part = <<>> THEN [err |-> FALSE, steps |-> <<>>]
        ELSE IF HasPrefix(part, chLBracket) /\ HasSuffix(part, chRBracket)
        THEN bracketStep(TrimSpace(Slice(part, 1, Len(part) - 1)))
        ELSE IF lb # -1 /\ HasSuffix(part, chRBracket)
        THEN LET name == Slice(part, 0, lb)
                 sel == bracketStep(TrimSpace(Slice(part, lb + 1, Len(part) - 1)))
             IN  IF sel.err THEN sel
                 ELSE [err |-> FALSE,
                       steps |-> (IF name # <<>> THEN <<KeyStep(name)>> ELSE <<>>) \o sel.steps]
        ELSE [err |-> FALSE, steps |-> <<KeyStep(part)>>]

RECURSIVE parseParts(_, _, _)
parseParts(parts, i, steps) ==
    IF i > Len(parts) THEN [err |-> FALSE, steps |-> steps]
    ELSE LET r == parseToken(parts[i])
         IN  IF r.err THEN [err |-> TRUE, steps |-> <<>>]
             ELSE parseParts(parts, i + 1, steps \o r.steps)

parsePathSteps(path) ==
    LET p == TrimSpace(path)
    IN  IF p = <<>> \/ p = <<chDot>> THEN [err |-> FALSE, steps |-> <<>>]
        ELSE parseParts(SplitDot(p), 1, <<>>)

\* variant of stepsContainLoop: no step is taken for a loop
stepsContainLoopNever(steps) == FALSE

\* variant of stepsContainLoop: only the last step is looked at
stepsContainLoopLast(steps) == steps # <<>> /\ steps[Len(steps)].kind = "stepAll"

RECURSIVE stepsContainLoop(_)
stepsContainLoop(steps) ==
    IF steps = <<>> THEN FALSE
    ELSE IF Head(steps).kind = "stepAll" THEN TRUE
    ELSE stepsContainLoop(Tail(steps))

-----------------------------------------------------------------------------
(* The document tree: yaml.Node values held by reference.  A tree is a      *)
(* sequence of node records; a node reference is its position in it.       *)

DocId == 1

\* the node SortYaml starts navigation from
contentRoot(h, root) ==
    IF h[root].Kind = "DocumentNode" /\ Len(h[root].Content) > 0
    THEN h[root].Content[1]
    ELSE root

\* the scan of a mapping's keys: the 0-based position of the first key equal
\* to key, or -1
RECURSIVE findKey(_, _, _, _)
findKey(h, node, key, i) ==
    IF i >= Len(h[node].Content) THEN -1
    ELSE IF h[h[node].Content[i + 1]].Value = key THEN i
    ELSE findKey(h, node, key, i + 2)

\* all values of a mapping, in key order
RECURSIVE mappingValues(_, _, _)
mappingValues(h, node, i) ==
    IF i >= Len(h[node].Content) THEN <<>>
    ELSE <<h[node].Content[i + 2]>> \o mappingValues(h, node, i + 2)

\* variant of stepNode: a Key step with a numeric key indexes a Sequence
stepNodeNumericKey(h, node, st) ==
    IF st.kind = "stepKey" THEN
        IF h[node].Kind = "SequenceNode" /\ Atoi(st.key).ok /\ Atoi(st.key).n >= 0
        THEN IF Atoi(st.key).n >= Len(h[node].Content)
             THEN [err |-> "indexOutOfRange", next |-> <<>>]
             ELSE [err |-> "nil", next |-> <<h[node].Content[Atoi(st.key).n + 1]>>]
        ELSE IF h[node].Kind # "MappingNode" THEN [err |-> "cannotDescend", next |-> <<>>]
        ELSE LET i == findKey(h, node, st.key, 0)
             IN  IF i = -1 THEN [err |-> "keyNotFound", next |-> <<>>]
                 ELSE [err |-> "nil", next |-> <<h[node].Content[i + 2]>>]
    ELSE IF st.kind = "stepIndex" THEN
        IF h[node].Kind # "SequenceNode" THEN [err |-> "expectedSequence", next |-> <<>>]
        ELSE IF st.index < 0 \/ st.index >= Len(h[node].Content)
        THEN [err |-> "indexOutOfRange", next |-> <<>>]
        ELSE [err |-> "nil", next |-> <<h[node].Content[st.index + 1]>>]
    ELSE
        IF h[node].Kind = "SequenceNode" THEN [err |-> "nil", next |-> h[node].Content]
        ELSE IF h[node].Kind = "MappingNode"
        THEN [err |-> "nil", next |-> mappingValues(h, node, 0)]
        ELSE [err |-> "notIterable", next |-> <<>>]

\* one working-set node under one step: the nodes it adds to next, or an error
stepNode(h, node, st) ==
    IF st.kind = "stepKey" THEN
        IF h[node].Kind # "MappingNode" THEN [err |-> "cannotDescend", next |-> <<>>]
        ELSE LET i == findKey(h, node, st.key, 0)
             IN  IF i = -1 THEN [err |-> "keyNotFound", next |-> <<>>]
                 ELSE [err |-> "nil", next |-> <<h[node].Content[i + 2]>>]
    ELSE IF st.kind = "stepIndex" THEN
        IF h[node].Kind # "SequenceNode" THEN [err |-> "expectedSequence", next |-> <<>>]
        ELSE IF st.index < 0 \/ st.index >= Len(h[node].Content)
        THEN [err |-> "indexOutOfRange", next |-> <<>>]
        ELSE [err |-> "nil", next |-> <<h[node].Content[st.index + 1]>>]
    ELSE
        IF h[node].Kind = "SequenceNode" THEN [err |-> "nil", next |-> h[node].Content]
        ELSE IF h[node].Kind = "MappingNode"
        THEN [err |-> "nil", next |-> mappingValues(h, node, 0)]
        ELSE [err |-> "notIterable", next |-> <<>>]

\* variant of stepAllNodes: each expansion is put in front of next
RECURSIVE stepAllNodesPrepend(_, _, _, _, _)
stepAllNodesPrepend(h, cur, j, st, next) ==
    IF j > Len(cur) THEN [err |-> "nil", next |-> next]
    ELSE LET r == stepNode(h, cur[j], st)
         IN  IF r.err # "nil" THEN [err |-> r.err, next |-> <<>>]
             ELSE stepAllNodesPrepend(h, cur, j + 1, st, r.next \o next)

\* the inner loop over the working set for one step
RECURSIVE stepAllNodes(_, _, _, _, _)
stepAllNodes(h, cur, j, st, next) ==
    IF j > Len(cur) THEN [err |-> "nil", next |-> next]
    ELSE LET r == stepNode(h, cur[j], st)
         IN  IF r.err # "nil" THEN [err |-> r.err, next |-> <<>>]
             ELSE stepAllNodes(h, cur, j + 1, st, next \o r.next)

RECURSIVE resolveFrom(_, _, _, _)
resolveFrom(h, cur, steps, k) ==
    IF k > Len(steps) THEN [err |-> "nil", targets |-> cur]
    ELSE LET r == stepAllNodes(h, cur, 1, steps[k], <<>>)
         IN  IF r.err # "nil" THEN [err |-> r.err, targets |-> <<>>]
             ELSE resolveFrom(h, r.next, steps, k + 1)

resolveTargets(h, root, steps) == resolveFrom(h, <<contentRoot(h, root)>>, steps, 1)

-----------------------------------------------------------------------------
(* Sorting *)

\* Human mode's priority keys
humanCommonOrder ==
    << <<97, 112, 105, 86, 101, 114, 115, 105, 111, 110>>,       \* "apiVersion"
       <<107, 105, 110, 100>>,                                   \* "kind"
       <<109, 101, 116, 97, 100, 97, 116, 97>>,                  \* "metadata"
       <<110, 97, 109, 101>>,                                    \* "name"
       <<110, 97, 109, 101, 115, 112, 97, 99, 101>>,             \* "namespace"
       <<108, 97, 98, 101, 108, 115>>,                           \* "labels"
       <<97, 110, 110, 111, 116, 97, 116, 105, 111, 110, 115>>,  \* "annotations"
       <<105, 100>>,                                             \* "id"
       <<118, 101, 114, 115, 105, 111, 110>> >>                  \* "version"

\* 0-based position of key in humanCommonOrder, scanning from position i
RECURSIVE rankHuman(_, _)
rankHuman(key, i) ==
    IF i >= Len(humanCommonOrder) THEN Len(humanCommonOrder) + 1
    ELSE IF key = humanCommonOrder[i + 1] THEN i
    ELSE rankHuman(key, i + 1)

\* variant of rankSortType: in Human mode a key off the list ranks first
rankSortTypeUnknownFirst(sortType, key) ==
    IF sortType = "alphanumeric" THEN Len(humanCommonOrder) + 1
    ELSE IF sortType = "human"
    THEN (IF rankHuman(key, 0) = Len(humanCommonOrder) + 1 THEN 0 ELSE rankHuman(key, 0) + 1)
    ELSE Len(humanCommonOrder) + 1

rankSortType(sortType, key) ==
    IF sortType = "alphanumeric" THEN Len(humanCommonOrder) + 1
    ELSE IF sortType = "human" THEN rankHuman(key, 0)
    ELSE Len(humanCommonOrder) + 1

\* sort.SliceStable over n elements: the stable order of the positions 1..n
\* under the strict weak order less, less[i][j] meaning element i sorts
\* before element j
\* variant of insertStable: an element goes in front of its equals
RECURSIVE insertBeforeEquals(_, _, _)
insertBeforeEquals(sorted, x, less) ==
    IF sorted = <<>> THEN <<x>>
    ELSE IF ~less[Head(sorted)][x] THEN <<x>> \o sorted
    ELSE <<Head(sorted)>> \o insertBeforeEquals(Tail(sorted), x, less)

RECURSIVE insertStable(_, _, _)
insertStable(sorted, x, less) ==
    IF sorted = <<>> THEN <<x>>
    ELSE IF less[x][Head(sorted)] THEN <<x>> \o sorted
    ELSE <<Head(sorted)>> \o insertStable(Tail(sorted), x, less)

RECURSIVE sliceStableFrom(_, _, _, _)
sliceStableFrom(n, i, sorted, less) ==
    IF i > n THEN sorted
    ELSE sliceStableFrom(n, i + 1, insertStable(sorted, i, less), less)

SliceStable(n, less) == sliceStableFrom(n, 1, <<>>, less)

\* the children list of node n replaced by c
withContent(h, n, c) == [h EXCEPT ![n].Content = c]

\* variant of flattenPairs: the keys move, the values stay where they were
RECURSIVE flattenPairsValuesInPlace(_, _, _)
flattenPairsValuesInPlace(content, order, i) ==
    IF i > Len(order) THEN <<>>
    ELSE <<content[2 * order[i] - 1], content[2 * i]>>
         \o flattenPairsValuesInPlace(content, order, i + 1)

RECURSIVE flattenPairs(_, _, _)
flattenPairs(content, order, i) ==
    IF i > Len(order) THEN <<>>
    ELSE <<content[2 * order[i] - 1], content[2 * order[i]]>> \o flattenPairs(content, order, i + 1)

\* variant of sortMappingNodeKeys: the keys are sorted, the values stay
sortMappingKeysOnly(h, sortType, n) ==
    IF h[n].Kind # "MappingNode" THEN h
    ELSE LET content == h[n].Content
             np == Len(content) \div 2
             keyOf(i) == h[content[2 * i - 1]].Value
             less == [i \in 1..np |-> [j \in 1..np |->
                        LET ri == rankSortType(sortType, keyOf(i))
                            rj == rankSortType(sortType, keyOf(j))
                        IN  IF ri # rj THEN ri < rj ELSE StrLess(keyOf(i), keyOf(j))]]
             order == SliceStable(np, less)
         IN  withContent(h, n, [i \in 1..(2 * np) |->
                                  IF i % 2 = 1 THEN content[2 * order[(i + 1) \div 2] - 1]
                                  ELSE content[i]])

sortMappingNodeKeys(h, sortType, n) ==
    IF h[n].Kind # "MappingNode" THEN h
    ELSE LET content == h[n].Content
             np == Len(content) \div 2
             keyOf(i) == h[content[2 * i - 1]].Value
             less == [i \in 1..np |-> [j \in 1..np |->
                        LET ri == rankSortType(sortType, keyOf(i))
                            rj == rankSortType(sortType, keyOf(j))
                        IN  IF ri # rj THEN ri < rj ELSE StrLess(keyOf(i), keyOf(j))]]
         IN  withContent(h, n, flattenPairs(content, SliceStable(np, less), 1))

\* the text of a node used to compare sequence elements
RECURSIVE nodeComparableString(_, _)
RECURSIVE renderPairs(_, _, _)
RECURSIVE renderElems(_, _, _)
nodeComparableString(h, n) ==
    IF h[n].Kind = "ScalarNode" THEN h[n].Value
    ELSE IF h[n].Kind = "MappingNode" THEN <<chLBrace>> \o renderPairs(h, n, 0) \o <<chRBrace>>
    ELSE IF h[n].Kind = "SequenceNode" THEN <<chLBracket>> \o renderElems(h, n, 0) \o <<chRBracket>>
    ELSE <<>>

renderPairs(h, n, i) ==
    IF i >= Len(h[n].Content) THEN <<>>
    ELSE (IF i > 0 THEN <<chComma>> ELSE <<>>)
         \o h[h[n].Content[i + 1]].Value \o <<chColon>>
         \o nodeComparableString(h, h[n].Content[i + 2])
         \o renderPairs(h, n, i + 2)

renderElems(h, n, i) ==
    IF i >= Len(h[n].Content) THEN <<>>
    ELSE (IF i > 0 THEN <<chComma>> ELSE <<>>)
         \o nodeComparableString(h, h[n].Content[i + 1])
         \o renderElems(h, n, i + 1)

\* variant of firstFieldComparableValue: the element itself is rendered
wholeElementComparableValue(h, el) == nodeComparableString(h, el)

firstFieldComparableValue(h, el) ==
    IF h[el].Kind = "MappingNode" /\ Len(h[el].Content) >= 2
    THEN nodeComparableString(h, h[el].Content[2])
    ELSE nodeComparableString(h, el)

\* variant of sortSequenceByFirstField: the keys of the elements are sorted too
RECURSIVE sortKeysOfAll(_, _)
sortKeysOfAll(h, els) ==
    IF els = <<>> THEN h
    ELSE sortKeysOfAll(sortMappingNodeKeys(h, "alphanumeric", Head(els)), Tail(els))

sortSequenceAndElementKeys(h, n) ==
    IF h[n].Kind # "SequenceNode" THEN h
    ELSE LET content == h[n].Content
             ne == Len(content)
             key == [i \in 1..ne |-> firstFieldComparableValue(h, content[i])]
             less == [i \in 1..ne |-> [j \in 1..ne |-> StrLess(key[i], key[j])]]
             order == SliceStable(ne, less)
         IN  sortKeysOfAll(withContent(h, n, [i \in 1..ne |-> content[order[i]]]), content)

sortSequenceByFirstField(h, n) ==
    IF h[n].Kind # "SequenceNode" THEN h
    ELSE LET content == h[n].Content
             ne == Len(content)
             key == [i \in 1..ne |-> firstFieldComparableValue(h, content[i])]
             less == [i \in 1..ne |-> [j \in 1..ne |-> StrLess(key[i], key[j])]]
             order == SliceStable(ne, less)
         IN  withContent(h, n, [i \in 1..ne |-> content[order[i]]])

-----------------------------------------------------------------------------
(* Decoded documents.  A document is written as a nested value and laid    *)
(* out in pre-order, the document node first, as the decoder builds it.    *)

tScalar(v) == [Kind |-> "ScalarNode", Value |-> v, Kids |-> <<>>]
tMapping(kids) == [Kind |-> "MappingNode", Value |-> <<>>, Kids |-> kids]
tSequence(kids) == [Kind |-> "SequenceNode", Value |-> <<>>, Kids |-> kids]
tDocument(root) == [Kind |-> "DocumentNode", Value |-> <<>>, Kids |-> <<root>>]

RECURSIVE treeSize(_)
RECURSIVE kidsSize(_)
treeSize(t) == 1 + kidsSize(t.Kids)
kidsSize(kids) == IF kids = <<>> THEN 0 ELSE treeSize(Head(kids)) + kidsSize(Tail(kids))

RECURSIVE kidIds(_, _)
kidIds(kids, first) ==
    IF kids = <<>> THEN <<>>
    ELSE <<first>> \o kidIds(Tail(kids), first + treeSize(Head(kids)))

RECURSIVE layout(_, _)
RECURSIVE layoutKids(_, _)
layout(t, id) ==
    <<[Kind |-> t.Kind, Value |-> t.Value, Content |-> kidIds(t.Kids, id + 1)]>>
    \o layoutKids(t.Kids, id + 1)
layoutKids(kids, first) ==
    IF kids = <<>> THEN <<>>
    ELSE layout(Head(kids), first) \o layoutKids(Tail(kids), first + treeSize(Head(kids)))

decodeYAML(root) == layout(tDocument(root), DocId)

txtEmpty == <<>>
txtDot == <<46>>                          \* "."
txtA == <<97>>                            \* "a"
txtB == <<98>>                            \* "b"
txtAB == <<97, 98>>                       \* "ab"
txtX == <<120>>                           \* "x"
txtY == <<121>>                           \* "y"
txtZ == <<122>>                           \* "z"
txtId == <<105, 100>>                     \* "id"
txtName == <<110, 97, 109, 101>>          \* "name"
txtZero == <<48>>                         \* "0"
txtAll == <<91, 42, 93>>                  \* "[*]"
txtFirst == <<91, 48, 93>>                \* "[0]"
txtSecond == <<91, 49, 93>>               \* "[1]"
txtAllA == <<91, 42, 93, 46, 97>>         \* "[*].a"
txtFirstA == <<91, 48, 93, 46, 97>>       \* "[0].a"
txtAAll == <<97, 91, 42, 93>>             \* "a[*]"
txtAllAll == <<91, 42, 93, 46, 91, 42, 93>>  \* "[*].[*]"
txtBadSel == <<91, 120, 93>>              \* "[x]"

kv(k, v) == <<tScalar(k), v>>
sx == tScalar(txtX)
sy == tScalar(txtY)
sz == tScalar(txtZ)
mBA == tMapping(kv(txtB, sx) \o kv(txtA, sy))

\* the documents of the runs of SortYaml
Documents ==
    { decodeYAML(mBA),
      decodeYAML(tMapping(kv(txtB, sx) \o kv(txtName, sy) \o kv(txtA, mBA))),
      decodeYAML(tSequence(<<tMapping(kv(txtB, sy) \o kv(txtA, sx)), sx,
                             tMapping(kv(txtB, sx) \o kv(txtA, tSequence(<<sy, sx>>)))>>)),
      decodeYAML(tSequence(<<sy, sx, sy>>)),
      decodeYAML(tMapping(kv(txtB, sx)
                          \o kv(txtA, tSequence(<<tMapping(kv(txtB, sy) \o kv(txtA, sx)),
                                                  tMapping(kv(txtA, sx) \o kv(txtB, sz))>>)))),
      decodeYAML(sx),
      decodeYAML(tMapping(kv(txtA, sx) \o kv(txtB, sy) \o kv(txtA, mBA))),
      decodeYAML(tSequence(<<mBA, tMapping(kv(txtA, mBA) \o kv(txtB, sx))>>)),
      decodeYAML(tSequence(<<tSequence(<<sy, sx>>), tSequence(<<mBA>>)>>)) }

\* the -p paths of the runs of SortYaml
Paths ==
    { txtEmpty, txtDot, txtA, txtZero, txtAll, txtFirst, txtSecond,
      txtAllA, txtFirstA, txtAAll, txtAllAll, txtBadSel }

\* all sequences over S of length lo..hi
SeqsOf(S, lo, hi) == UNION { [1..n -> S] : n \in lo..hi }

\* the characters of the path texts enumerated for the parser: the ones the
\* parser looks for, the digit 1 and the letter a
PathAlphabet ==
    {chSpace, chStar, chPlus, chMinus, chDot, chLBracket, chRBracket} \cup {49, 97}

ParserPaths == SeqsOf(PathAlphabet, 0, MaxPathLen)
ParserDocuments == { decodeYAML(tSequence(<<mBA>>)) }

\* the sort targets enumerated for the two sorters: mappings over SortKeys
\* and sequences over SortElems
SortKeys == {txtA, txtB, txtAB, txtId, txtName}
SortElems ==
    { sx, sy, tMapping(kv(txtA, sx)), tMapping(kv(txtA, sy) \o kv(txtB, sx)), mBA,
      tMapping(<<>>), tSequence(<<sx>>) }

RECURSIVE pairsOf(_)
pairsOf(keys) == IF keys = <<>> THEN <<>> ELSE kv(Head(keys), sx) \o pairsOf(Tail(keys))

SorterDocuments ==
    { decodeYAML(tMapping(pairsOf(keys))) : keys \in SeqsOf(SortKeys, 0, MaxPairs) }
    \cup { decodeYAML(tSequence(els)) : els \in SeqsOf(SortElems, 0, MaxPairs) }

SortTypes == {"alphanumeric", "human"}

-----------------------------------------------------------------------------
(* State *)

VARIABLES
    nodes,      \* the document tree SortYaml mutates
    YamlPaths,  \* cli.YamlPaths
    SortType,   \* cli.SortType
    pc,         \* position in SortYaml: "loop", "resolve", "targets", "done", "failed"
    pathIdx,    \* index of the path of the current iteration (1-based)
    steps,      \* steps of the current path
    targets,    \* targets of the current path
    looping,    \* stepsContainLoop(steps)
    tIdx,       \* index of the next target (1-based)
    err,        \* the error SortYaml returns, "nil" when none
    nodes0,     \* history: the tree as decoded
    pathStart,  \* history: the tree when the current iteration began
    parsed,     \* history: number of calls of parsePathSteps
    applied     \* history: number of paths whose targets were all handled

vars == <<nodes, YamlPaths, SortType, pc, pathIdx, steps, targets, looping, tIdx, err,
          nodes0, pathStart, parsed, applied>>

InitWith(docs, lists, sortTypes) ==
    /\ nodes \in docs
    /\ YamlPaths \in lists
    /\ SortType \in sortTypes
    /\ pc = "loop"
    /\ pathIdx = 1
    /\ steps = <<>>
    /\ targets = <<>>
    /\ looping = FALSE
    /\ tIdx = 1
    /\ err = "nil"
    /\ nodes0 = nodes
    /\ pathStart = nodes
    /\ parsed = 0
    /\ applied = 0

\* runs of SortYaml over the documents and lists of paths
Init == InitWith(Documents, SeqsOf(Paths, 1, MaxPaths), SortTypes)

\* runs over every path text of the alphabet, one path a run
InitParser == InitWith(ParserDocuments, { <<p>> : p \in ParserPaths }, {"alphanumeric"})

\* runs that sort the root of every enumerated sort target
InitSorter == InitWith(SorterDocuments, { <<txtEmpty>> }, SortTypes)

\* SortYaml, loop head and parsePathSteps; the iteration's locals start afresh
ParsePath ==
    /\ pc = "loop"
    /\ pathIdx <= Len(YamlPaths)
    /\ LET r == parsePathSteps(YamlPaths[pathIdx])
       IN  /\ steps' = r.steps
           /\ pc' = IF r.err THEN "failed" ELSE "resolve"
           /\ err' = IF r.err THEN "invalidPath" ELSE err
    /\ targets' = <<>>
    /\ looping' = FALSE
    /\ tIdx' = 1
    /\ pathStart' = nodes
    /\ parsed' = parsed + 1
    /\ UNCHANGED <<nodes, YamlPaths, SortType, pathIdx, nodes0, applied>>

\* SortYaml, resolveTargets and stepsContainLoop
ResolveTargets ==
    /\ pc = "resolve"
    /\ LET r == resolveTargets(nodes, DocId, steps)
       IN  IF r.err # "nil"
           THEN /\ pc' = "failed"
                /\ err' = r.err
                /\ UNCHANGED <<targets, looping, tIdx>>
           ELSE /\ pc' = "targets"
                /\ targets' = r.targets
                /\ looping' = stepsContainLoop(steps)
                /\ tIdx' = 1
                /\ err' = err
    /\ UNCHANGED <<nodes, YamlPaths, SortType, pathIdx, steps, nodes0, pathStart, parsed, applied>>

\* SortYaml, one iteration of the loop over the targets
SortTarget ==
    /\ pc = "targets"
    /\ tIdx <= Len(targets)
    /\ LET target == targets[tIdx]
       IN  IF nodes[target].Kind = "MappingNode"
           THEN /\ nodes' = sortMappingNodeKeys(nodes, SortType, target)
                /\ tIdx' = tIdx + 1
                /\ UNCHANGED <<pc, err>>
           ELSE IF nodes[target].Kind = "SequenceNode"
           THEN /\ nodes' = sortSequenceByFirstField(nodes, target)
                /\ tIdx' = tIdx + 1
                /\ UNCHANGED <<pc, err>>
           ELSE IF ~looping
           THEN /\ pc' = "failed"
                /\ err' = "targetKind"
                /\ UNCHANGED <<nodes, tIdx>>
           ELSE /\ tIdx' = tIdx + 1
                /\ UNCHANGED <<nodes, pc, err>>
    /\ UNCHANGED <<YamlPaths, SortType, pathIdx, steps, targets, looping, nodes0, pathStart,
                   parsed, applied>>

\* SortYaml, the loop over the targets is over: on to the next path
NextPath ==
    /\ pc = "targets"
    /\ tIdx > Len(targets)
    /\ pc' = "loop"
    /\ pathIdx' = pathIdx + 1
    /\ applied' = applied + 1
    /\ UNCHANGED <<nodes, YamlPaths, SortType, steps, targets, looping, tIdx, err, nodes0,
                   pathStart, parsed>>

\* SortYaml, return nil
Return ==
    /\ pc = "loop"
    /\ pathIdx > Len(YamlPaths)
    /\ pc' = "done"
    /\ UNCHANGED <<nodes, YamlPaths, SortType, pathIdx, steps, targets, looping, tIdx, err,
                   nodes0, pathStart, parsed, applied>>

Next == ParsePath \/ ResolveTargets \/ SortTarget \/ NextPath \/ Return

Spec == Init /\ [][Next]_vars
SpecParser == InitParser /\ [][Next]_vars
SpecSorter == InitSorter /\ [][Next]_vars

-----------------------------------------------------------------------------
(* Vocabulary of the properties *)

Range(f) == { f[i] : i \in DOMAIN f }

IsDigits(s) == s # <<>> /\ \A i \in 1..Len(s) : s[i] \in chZero..chNine

\* the value of a text of digits
RECURSIVE DigitsValue(_)
DigitsValue(s) ==
    IF s = <<>> THEN 0 ELSE 10 * DigitsValue(SubSeq(s, 1, Len(s) - 1)) + (s[Len(s)] - chZero)

ResolveErrors ==
    {"cannotDescend", "keyNotFound", "expectedSequence", "indexOutOfRange", "notIterable"}

\* the working set before step k of the current path, on the tree the path
\* was resolved against
WorkingSet(k) == resolveFrom(pathStart, <<contentRoot(pathStart, DocId)>>, SubSeq(steps, 1, k - 1), 1)

\* step k of the current path is a Key step that meets a Sequence as the
\* first node of its working set
KeyMeetsSequence(k) ==
    /\ steps[k].kind = "stepKey"
    /\ WorkingSet(k).err = "nil"
    /\ pathStart[WorkingSet(k).targets[1]].Kind = "SequenceNode"

HasWildcard == \E i \in 1..Len(steps) : steps[i].kind = "stepAll"
HasIndex == \E i \in 1..Len(steps) : steps[i].kind = "stepIndex"

-----------------------------------------------------------------------------
(* C1 *)

\* C1 as stated: a Key step with a numeric key text n that meets a Sequence
\* is resolved as Index(n): the last step of a path then succeeds when
\* n < length and fails with index-out-of-range when n >= length.
C1_NumericKeyIndexesSequence ==
    \A k \in 1..Len(steps) :
        (k = Len(steps) /\ KeyMeetsSequence(k) /\ IsDigits(steps[k].key) /\ pc # "resolve")
        => LET ws == WorkingSet(k).targets
               n == DigitsValue(steps[k].key)
           IN  IF n >= Len(pathStart[ws[1]].Content)
               THEN pc = "failed" /\ err = "indexOutOfRange"
               ELSE Len(ws) = 1 => err \notin ResolveErrors

\* C1 amended: a Key step that meets a Sequence makes resolveTargets fail
\* with the not-a-mapping error whatever its key text, numeric or not.
C1_KeyOnSequenceFails ==
    \A k \in 1..Len(steps) :
        (KeyMeetsSequence(k) /\ pc # "resolve") => (pc = "failed" /\ err = "cannotDescend")

\* a numeric key was resolved against a Sequence
C1_Witness ==
    /\ pc = "failed"
    /\ err = "cannotDescend"
    /\ \E k \in 1..Len(steps) : KeyMeetsSequence(k) /\ IsDigits(steps[k].key)

-----------------------------------------------------------------------------
(* C2 *)

\* the current path failed in resolveTargets
ResolveFailed == pc = "failed" /\ err \in ResolveErrors

\* the current path resolves against the tree as decoded
ResolvesOnOriginal == resolveTargets(nodes0, DocId, steps).err = "nil"

\* C2 as stated: a path that resolves against the original tree also
\* resolves against the tree as mutated by the earlier paths.
C2_EarlierPathsNeverBreakNavigation == ResolveFailed => ~ResolvesOnOriginal

\* C2 amended: a path without Index steps (Key and Wildcard steps only) that
\* resolves against the original tree also resolves against the tree as
\* mutated by the earlier paths.
C2_KeyAndWildcardNavigationSurvives == (ResolveFailed /\ ~HasIndex) => ~ResolvesOnOriginal

\* a path of Key and Wildcard steps was resolved against a tree that an
\* earlier path had reordered
C2_Witness ==
    /\ pc = "targets"
    /\ pathIdx >= 2
    /\ pathStart # nodes0
    /\ ~HasIndex
    /\ \E i, j \in 1..Len(steps) : steps[i].kind = "stepKey" /\ steps[j].kind = "stepAll"
    /\ ResolvesOnOriginal

-----------------------------------------------------------------------------
(* C3 *)

\* C3: SortYaml takes the paths in order and stops at the first error: when
\* path k fails the tree is the one path k started from (paths 1..k-1
\* applied, path k having reordered nothing), exactly k paths were parsed and
\* k-1 applied; when no path fails every path was applied.
C3_StopsAtFirstError ==
    /\ parsed \in {pathIdx - 1, pathIdx}
    /\ applied = pathIdx - 1
    /\ pc = "failed" => (nodes = pathStart /\ parsed = pathIdx /\ pathIdx <= Len(YamlPaths))
    /\ pc = "done" => (err = "nil" /\ applied = Len(YamlPaths) /\ parsed = Len(YamlPaths))

\* the second path failed on a non-sortable target after the first had
\* reordered the tree
C3_Witness ==
    /\ pc = "failed"
    /\ err = "targetKind"
    /\ pathIdx = 2
    /\ nodes # nodes0

-----------------------------------------------------------------------------
(* C4 *)

\* the current path repeats the path just applied
RepeatsPreviousPath ==
    /\ pathIdx >= 2
    /\ pathIdx <= Len(YamlPaths)
    /\ YamlPaths[pathIdx] = YamlPaths[pathIdx - 1]
    /\ parsed = pathIdx

\* C4: applying the same path and sort mode again right after a successful
\* application succeeds and leaves every node's children as they were.
C4_Idempotent == RepeatsPreviousPath => (pc # "failed" /\ nodes = pathStart)

\* a path that reordered the tree was applied a second time, to the end
C4_Witness ==
    /\ RepeatsPreviousPath
    /\ pathIdx = 2
    /\ pc = "targets"
    /\ tIdx > Len(targets)
    /\ Len(targets) >= 1
    /\ nodes # nodes0

-----------------------------------------------------------------------------
(* C5 *)

Sortable(h, n) == h[n].Kind \in {"MappingNode", "SequenceNode"}

KeyAt(h, n, i) == h[h[n].Content[2 * i - 1]].Value

InHumanList(key) == \E i \in 1..Len(humanCommonOrder) : humanCommonOrder[i] = key
HumanPosition(key) == CHOOSE i \in 1..Len(humanCommonOrder) : humanCommonOrder[i] = key

\* key a may stand before key b in a sorted mapping
KeyOrdered(sortType, a, b) ==
    IF sortType = "human" /\ (InHumanList(a) \/ InHumanList(b))
    THEN InHumanList(a) /\ (InHumanList(b) => HumanPosition(a) <= HumanPosition(b))
    ELSE ~StrLess(b, a)

MappingSorted(h, n, sortType) ==
    \A i, j \in 1..(Len(h[n].Content) \div 2) :
        i < j => KeyOrdered(sortType, KeyAt(h, n, i), KeyAt(h, n, j))

\* the comparison key of a sequence element
ComparisonKey(h, el) ==
    IF h[el].Kind = "MappingNode" /\ Len(h[el].Content) >= 2
    THEN nodeComparableString(h, h[el].Content[2])
    ELSE nodeComparableString(h, el)

SequenceSorted(h, n) ==
    \A i, j \in 1..Len(h[n].Content) :
        i < j => ~StrLess(ComparisonKey(h, h[n].Content[j]), ComparisonKey(h, h[n].Content[i]))

TargetSorted(h, n) ==
    /\ h[n].Kind = "MappingNode" => MappingSorted(h, n, SortType)
    /\ h[n].Kind = "SequenceNode" => SequenceSorted(h, n)

\* C5: a target that is neither Mapping nor Sequence fails the run with the
\* target error exactly when the steps hold no Wildcard; with a Wildcard
\* anywhere in the steps such targets are passed over and the other targets
\* of the path are sorted.
C5_ScalarTargetsSkippedWhenLooping ==
    /\ (pc = "failed" /\ err = "targetKind")
           => (~HasWildcard /\ ~Sortable(nodes, targets[tIdx]))
    /\ pc = "targets"
           => \A i \in 1..(tIdx - 1) :
                 /\ ~Sortable(nodes, targets[i]) => HasWildcard
                 /\ TargetSorted(nodes, targets[i])

\* a path with a Wildcard that is not its last step ran to the end, passed
\* over a scalar target and reordered a later target
C5_Witness ==
    /\ pc = "targets"
    /\ tIdx > Len(targets)
    /\ HasWildcard
    /\ steps[Len(steps)].kind # "stepAll"
    /\ \E i, j \in 1..Len(targets) :
          /\ i < j
          /\ ~Sortable(nodes, targets[i])
          /\ nodes[targets[j]].Content # pathStart[targets[j]].Content

-----------------------------------------------------------------------------
(* C6 *)

IsPermutation(a, b) ==
    /\ Len(a) = Len(b)
    /\ \A x \in Range(a) \cup Range(b) :
          Cardinality({ i \in 1..Len(a) : a[i] = x }) = Cardinality({ i \in 1..Len(b) : b[i] = x })

\* the targets the current path has handled so far
Handled == { targets[i] : i \in 1..(tIdx - 1) }

\* C6: after sortMappingNodeKeys the pairs of a Mapping target are in
\* ascending (rank, key) order: all keys ascending in Alphanumeric mode; in
\* Human mode the keys of the priority list first, in list order, then the
\* other keys ascending, whatever their input order.
C6_MappingKeysSorted ==
    \A n \in Handled :
        nodes[n].Kind = "MappingNode"
        => LET np == Len(nodes[n].Content) \div 2
           IN  /\ IsPermutation(nodes[n].Content, pathStart[n].Content)
               /\ \A i \in 1..(np - 1) :
                     LET a == KeyAt(nodes, n, i)
                         b == KeyAt(nodes, n, i + 1)
                     IN  IF SortType = "alphanumeric" THEN ~StrLess(b, a)
                         ELSE IF InHumanList(a) /\ InHumanList(b)
                              THEN HumanPosition(a) <= HumanPosition(b)
                         ELSE IF InHumanList(b) THEN FALSE
                         ELSE IF InHumanList(a) THEN TRUE
                         ELSE ~StrLess(b, a)

\* Human mode reordered a mapping that holds a priority key behind two other
\* keys in descending order
C6_Witness ==
    /\ SortType = "human"
    /\ \E n \in Handled :
          /\ pathStart[n].Kind = "MappingNode"
          /\ Len(pathStart[n].Content) = 6
          /\ ~InHumanList(KeyAt(pathStart, n, 1))
          /\ ~InHumanList(KeyAt(pathStart, n, 2))
          /\ StrLess(KeyAt(pathStart, n, 2), KeyAt(pathStart, n, 1))
          /\ InHumanList(KeyAt(pathStart, n, 3))
          /\ nodes[n].Content # pathStart[n].Content

-----------------------------------------------------------------------------
(* C7 *)

\* position of element x in the children list c
PositionIn(c, x) == CHOOSE i \in 1..Len(c) : c[i] = x

\* C7: after sortSequenceByFirstField the elements of a Sequence target are
\* in ascending order of their comparison keys, and elements with equal
\* comparison keys keep their input order.
C7_SequenceSortedStable ==
    \A n \in Handled :
        nodes[n].Kind = "SequenceNode"
        => LET before == pathStart[n].Content
               after == nodes[n].Content
           IN  /\ IsPermutation(after, before)
               /\ \A i, j \in 1..Len(after) :
                     i < j =>
                       LET ki == ComparisonKey(pathStart, after[i])
                           kj == ComparisonKey(pathStart, after[j])
                       IN  /\ ~StrLess(kj, ki)
                           /\ ki = kj => PositionIn(before, after[i]) < PositionIn(before, after[j])

\* a sequence was reordered that holds two elements with equal comparison
\* keys, one of them a mapping compared by its first value
C7_Witness ==
    \E n \in Handled :
        /\ pathStart[n].Kind = "SequenceNode"
        /\ nodes[n].Content # pathStart[n].Content
        /\ \E i, j \in 1..Len(pathStart[n].Content) :
              /\ i < j
              /\ pathStart[pathStart[n].Content[i]].Kind = "MappingNode"
              /\ Len(pathStart[pathStart[n].Content[i]].Content) >= 2
              /\ ComparisonKey(pathStart, pathStart[n].Content[i])
                   = ComparisonKey(pathStart, pathStart[n].Content[j])

-----------------------------------------------------------------------------
(* C8 *)

\* C8: a path changes only the order of the direct children of its targets:
\* every other node keeps its children list, and no node changes kind or
\* value.
C8_OnlyTargetsReordered ==
    \A n \in DOMAIN nodes :
        /\ nodes[n].Kind = pathStart[n].Kind
        /\ nodes[n].Value = pathStart[n].Value
        /\ IsPermutation(nodes[n].Content, pathStart[n].Content)
        /\ nodes[n].Content # pathStart[n].Content => n \in Handled

\* a Sequence target was reordered and one of its elements is a mapping whose
\* keys are still out of order
C8_Witness ==
    \E n \in Handled :
        /\ nodes[n].Kind = "SequenceNode"
        /\ nodes[n].Content # pathStart[n].Content
        /\ \E el \in Range(nodes[n].Content) :
              /\ nodes[el].Kind = "MappingNode"
              /\ ~MappingSorted(nodes, el, SortType)

-----------------------------------------------------------------------------
(* C9 *)

\* the tokens of a path: the maximal dot-free pieces of the trimmed path,
\* each trimmed, the empty ones left out
TokensOf(path) ==
    LET p == TrimSpace(path)
        IsPiece(i, j) ==
            /\ \A m \in i..j : p[m] # chDot
            /\ i = 1 \/ p[i - 1] = chDot
            /\ j = Len(p) \/ p[j + 1] = chDot
    IN  { TrimSpace(SubSeq(p, i, j)) : <<i, j>> \in { q \in (1..Len(p)) \X (1..Len(p)) :
                                                       q[1] <= q[2] /\ IsPiece(q[1], q[2]) } }
        \ {<<>>}

HasBracket(tok) == \E i \in 1..Len(tok) : tok[i] \in {chLBracket, chRBracket}

\* the token has a [ and ends with ]
BracketForm(tok) == tok[Len(tok)] = chRBracket /\ \E i \in 1..Len(tok) : tok[i] = chLBracket

\* the selection of a token in bracket form: the text between its first [
\* and its last character, trimmed
Selection(tok) ==
    LET lb == CHOOSE i \in 1..Len(tok) :
                  tok[i] = chLBracket /\ \A j \in 1..(i - 1) : tok[j] # chLBracket
    IN  TrimSpace(SubSeq(tok, lb + 1, Len(tok) - 1))

\* a decimal integer with an optional sign
IsSignedDecimal(s) ==
    /\ s # <<>>
    /\ IF s[1] \in {chPlus, chMinus} THEN IsDigits(Tail(s)) ELSE IsDigits(s)

\* a token as the grammar of the specification has it: name[sel] or [sel],
\* one bracket pair, sel being * or a non-negative integer
WellFormedBracket(tok) ==
    /\ BracketForm(tok)
    /\ Cardinality({ i \in 1..Len(tok) : tok[i] \in {chLBracket, chRBracket} }) = 2
    /\ Selection(tok) = <<chStar>> \/ IsDigits(Selection(tok))

\* the parser was run on the one path of the run
ParserRan == parsed = 1 /\ pathIdx = 1

-----------------------------------------------------------------------------
(* C10 *)

\* the nodes of the tree in document order
RECURSIVE DocumentOrder(_, _)
RECURSIVE DocumentOrderOfAll(_, _)
DocumentOrder(h, n) == <<n>> \o DocumentOrderOfAll(h, h[n].Content)
DocumentOrderOfAll(h, c) ==
    IF c = <<>> THEN <<>> ELSE DocumentOrder(h, Head(c)) \o DocumentOrderOfAll(h, Tail(c))

IsChild(h, p, n) == \E i \in 1..Len(h[p].Content) : h[p].Content[i] = n
ParentOf(h, n) == CHOOSE p \in DOMAIN h : IsChild(h, p, n)

\* step st leads from node p to its child n
StepSelects(h, p, n, st) ==
    LET c == h[p].Content
    IN  IF st.kind = "stepKey"
        THEN /\ h[p].Kind = "MappingNode"
             /\ \E i \in 1..(Len(c) \div 2) :
                   /\ c[2 * i] = n
                   /\ h[c[2 * i - 1]].Value = st.key
                   /\ \A j \in 1..(i - 1) : h[c[2 * j - 1]].Value # st.key
        ELSE IF st.kind = "stepIndex"
        THEN /\ h[p].Kind = "SequenceNode"
             /\ st.index \in 0..(Len(c) - 1)
             /\ c[st.index + 1] = n
        ELSE \/ h[p].Kind = "SequenceNode" /\ IsChild(h, p, n)
             \/ h[p].Kind = "MappingNode" /\ \E i \in 1..(Len(c) \div 2) : c[2 * i] = n

\* node n is reached from the root content node by the first k steps
RECURSIVE Addressed(_, _, _, _)
Addressed(h, n, sts, k) ==
    IF k = 0 THEN n = h[DocId].Content[1]
    ELSE /\ n # DocId
         /\ n # h[DocId].Content[1]
         /\ StepSelects(h, ParentOf(h, n), n, sts[k])
         /\ Addressed(h, ParentOf(h, n), sts, k - 1)

\* C10: the Target Set is the list, in document order, of the nodes the
\* steps address from the root content node: the root content node alone
\* for an empty step sequence, all elements or all values under a Wildcard
\* (outer order first, inner order second), the value of the first equal
\* key under a Key step.
C10_TargetsInDocumentOrder ==
    pc = "targets" =>
        LET IsTarget(n) == Addressed(pathStart, n, steps, Len(steps))
        IN  targets = SelectSeq(DocumentOrder(pathStart, DocId), IsTarget)

\* two Wildcard steps fanned out over two sequences
C10_Witness ==
    /\ pc = "targets"
    /\ Len(steps) = 2
    /\ steps[1].kind = "stepAll"
    /\ steps[2].kind = "stepAll"
    /\ Len(targets) >= 3
    /\ ParentOf(pathStart, targets[1]) # ParentOf(pathStart, targets[3])

-----------------------------------------------------------------------------
(* C11 *)

\* the value node that follows key node k in the children list c of a mapping
ValueAfter(c, k) == c[PositionIn(c, k) + 1]

\* C11: whatever paths were applied, and whether the run succeeded or was
\* aborted, every node's children are a permutation of its children as
\* decoded: none added, dropped or duplicated; a Mapping's children list
\* keeps its even length, its keys stay at the key positions and every key
\* is still followed by the value node it was decoded with, duplicated key
\* texts included.
C11_ChildrenPermutedPairsKept ==
    \A n \in DOMAIN nodes :
        LET before == nodes0[n].Content
            after == nodes[n].Content
        IN  /\ DOMAIN nodes = DOMAIN nodes0
            /\ nodes[n].Kind = nodes0[n].Kind
            /\ IsPermutation(after, before)
            /\ Cardinality(Range(after)) = Len(after)
            /\ nodes[n].Kind = "MappingNode" =>
                  /\ Len(after) % 2 = 0
                  /\ \A i \in 1..(Len(after) \div 2) :
                        /\ PositionIn(before, after[2 * i - 1]) % 2 = 1
                        /\ after[2 * i] = ValueAfter(before, after[2 * i - 1])

\* a run was aborted after it had reordered a mapping that holds the same
\* key text twice
C11_Witness ==
    /\ pc = "failed"
    /\ \E n \in DOMAIN nodes :
          /\ nodes[n].Kind = "MappingNode"
          /\ nodes[n].Content # nodes0[n].Content
          /\ \E i, j \in 1..(Len(nodes[n].Content) \div 2) :
                i # j /\ KeyAt(nodes, n, i) = KeyAt(nodes, n, j)

====
